---- MODULE Spec2Model ----
(***************************************************************************)
(* Model of okx_monitor.py: the poll / detect / notify loop of run_monitor *)
(* with its dedup map, its time-window gates and its config reload, and    *)
(* the pure helpers the loop calls.                                        *)
(*                                                                         *)
(* Strings the code takes apart (pairs, contract types, bars, "HH:MM"      *)
(* times) are sequences of one-character strings over ASCII letters,       *)
(* digits, " ", "-", "/" and ":".                                          *)
(***************************************************************************)
EXTENDS Integers, Sequences, FiniteSets, TLC

VARIABLES
    pc,                    \* position of run_monitor
    i,                     \* index of the watcher the for loop is at (1-based)
    file_content,          \* what the config file holds now
    file_mtime,            \* its modification time
    last_mtime,            \* run_monitor.last_mtime
    token,                 \* run_monitor.token
    chat_id,               \* run_monitor.chat_id
    ssl_verify,            \* run_monitor.ssl_verify
    poll_interval,         \* run_monitor.poll_interval
    watchers,              \* run_monitor.watchers
    global_windows,        \* run_monitor.global_windows
    state_last_closed_ts,  \* run_monitor.state_last_closed_ts
    gate,                  \* what the tick's now_in_windows(global_windows) returned
    ev,                    \* what the last watcher iteration did
    last_fetched,          \* per key, the newest timestamp of the last fetch evaluated
    sent_watch,            \* send_telegram calls made for the pair Watched
    send_call,             \* a direct call of send_telegram and its result
    pure_call              \* a direct call of pattern_signal or now_in_windows

cfgvars == <<token, chat_id, ssl_verify, poll_interval, watchers, global_windows>>
filevars == <<file_content, file_mtime>>
vars == <<pc, i, file_content, file_mtime, last_mtime, token, chat_id, ssl_verify,
          poll_interval, watchers, global_windows, state_last_closed_ts, gate, ev,
          last_fetched, sent_watch, send_call, pure_call>>

\* ------------------------------------------------------------------ bounds

MaxTs == 2
MaxMtime == 1
MaxCandles == 3
MaxSent == 2
MaxRetries == 4
MaxPrice == 3
MaxWindows == 2

\* ------------------------------------------------------------- characters

None == "None"
Raise == "raise"

Lowers == <<"a","b","c","d","e","f","g","h","i","j","k","l","m",
            "n","o","p","q","r","s","t","u","v","w","x","y","z">>
Uppers == <<"A","B","C","D","E","F","G","H","I","J","K","L","M",
            "N","O","P","Q","R","S","T","U","V","W","X","Y","Z">>
Digits == <<"0","1","2","3","4","5","6","7","8","9">>

\* str.upper / str.lower on one character
UpperChar(c) ==
    IF \E j \in 1..26 : Lowers[j] = c
    THEN Uppers[CHOOSE j \in 1..26 : Lowers[j] = c]
    ELSE c

LowerChar(c) ==
    IF \E j \in 1..26 : Uppers[j] = c
    THEN Lowers[CHOOSE j \in 1..26 : Uppers[j] = c]
    ELSE c

Upper(s) == [j \in 1..Len(s) |-> UpperChar(s[j])]
Lower(s) == [j \in 1..Len(s) |-> LowerChar(s[j])]

\* str.strip(): leading and trailing blanks removed
RECURSIVE LStrip(_)
LStrip(s) == IF s # <<>> /\ Head(s) = " " THEN LStrip(Tail(s)) ELSE s

RECURSIVE RStrip(_)
RStrip(s) ==
    IF s # <<>> /\ s[Len(s)] = " " THEN RStrip(SubSeq(s, 1, Len(s) - 1)) ELSE s

Strip(s) == RStrip(LStrip(s))

Contains(s, c) == \E j \in 1..Len(s) : s[j] = c

\* str.split(sep) for a one-character separator
RECURSIVE Split(_, _)
Split(s, sep) ==
    IF ~Contains(s, sep) THEN <<s>>
    ELSE LET p == CHOOSE j \in 1..Len(s) :
                      s[j] = sep /\ \A k \in 1..(j - 1) : s[k] # sep
         IN  <<SubSeq(s, 1, p - 1)>> \o Split(SubSeq(s, p + 1, Len(s)), sep)

\* [p for p in parts if p]
NonEmptyParts(parts) == SelectSeq(parts, LAMBDA p : p # <<>>)

\* str.replace(c, "")
Remove(s, c) == SelectSeq(s, LAMBDA x : x # c)

EndsWith(s, suf) ==
    Len(s) >= Len(suf) /\ SubSeq(s, Len(s) - Len(suf) + 1, Len(s)) = suf

IsDigit(c) == \E j \in 1..10 : Digits[j] = c
DigitVal(c) == (CHOOSE j \in 1..10 : Digits[j] = c) - 1

RECURSIVE DigitsVal(_)
DigitsVal(s) ==
    IF s = <<>> THEN 0 ELSE 10 * DigitsVal(SubSeq(s, 1, Len(s) - 1)) + DigitVal(s[Len(s)])

\* int(s): blanks around the digits are allowed, a "-" may lead; anything else
\* raises ValueError
ParseInt(s) ==
    LET t == Strip(s)
        neg == t # <<>> /\ Head(t) = "-"
        d == IF neg THEN Tail(t) ELSE t
    IN  IF d = <<>> \/ \E j \in 1..Len(d) : ~IsDigit(d[j])
        THEN [raised |-> TRUE, v |-> 0]
        ELSE [raised |-> FALSE, v |-> IF neg THEN 0 - DigitsVal(d) ELSE DigitsVal(d)]

\* ----------------------------------------------------- instrument helpers

\* the ASCII keys of normalize_bar's mapping (the Chinese keys are outside the
\* alphabet of the model)
BarMapping ==
    { <<(<<"1","m">>), (<<"1","m">>)>>,
      <<(<<"1","m","i","n">>), (<<"1","m">>)>>,
      <<(<<"3","m">>), (<<"3","m">>)>>,
      <<(<<"3","m","i","n">>), (<<"3","m">>)>>,
      <<(<<"5","m">>), (<<"5","m">>)>>,
      <<(<<"5","m","i","n">>), (<<"5","m">>)>>,
      <<(<<"1","5","m">>), (<<"1","5","m">>)>>,
      <<(<<"1","5","m","i","n">>), (<<"1","5","m">>)>>,
      <<(<<"3","0","m">>), (<<"3","0","m">>)>>,
      <<(<<"3","0","m","i","n">>), (<<"3","0","m">>)>>,
      <<(<<"1","h">>), (<<"1","H">>)>>,
      <<(<<"2","h">>), (<<"2","H">>)>>,
      <<(<<"4","h">>), (<<"4","H">>)>>,
      <<(<<"6","h">>), (<<"6","H">>)>>,
      <<(<<"1","2","h">>), (<<"1","2","H">>)>>,
      <<(<<"1","d">>), (<<"1","D">>)>>,
      <<(<<"1","w">>), (<<"1","W">>)>>,
      <<(<<"1","m","t","h">>), (<<"1","M">>)>>,
      <<(<<"1","q">>), (<<"3","M">>)>> }

normalize_bar(bar) ==
    LET b == Lower(Strip(bar))
    IN  IF \E e \in BarMapping : e[1] = b
        THEN (CHOOSE e \in BarMapping : e[1] = b)[2]
        ELSE bar

SWAP == <<"S","W","A","P">>
USDT == <<"U","S","D","T">>
USD == <<"U","S","D">>

\* both branches return s: "SWAP" is the only ASCII member of the tuple
normalize_contract_type(t) ==
    LET s == Upper(Strip(t))
    IN  IF s = SWAP THEN SWAP ELSE s

\* [raised |-> TRUE] stands for the ValueError of line 103
pair_to_inst_id(pair0, contract_type0) ==
    LET pair == Strip(Upper(pair0))
        contract_type == normalize_contract_type(contract_type0)
        dash == NonEmptyParts(Split(pair, "-"))
        slash == NonEmptyParts(Split(pair, "/"))
        bq == IF Contains(pair, "-")
              THEN IF Len(dash) >= 2 THEN <<dash[1], dash[2]>> ELSE <<(<<>>), (<<>>)>>
              ELSE IF Contains(pair, "/")
              THEN IF Len(slash) >= 2 THEN <<slash[1], slash[2]>> ELSE <<(<<>>), (<<>>)>>
              ELSE IF EndsWith(pair, USDT)
              THEN <<SubSeq(pair, 1, Len(pair) - 4), USDT>>
              ELSE IF EndsWith(pair, USD)
              THEN <<SubSeq(pair, 1, Len(pair) - 3), USD>>
              ELSE <<(<<>>), (<<>>)>>
        base == Remove(Remove(bq[1], "-"), "/")
    IN  IF bq[1] = <<>> \/ bq[2] = <<>>
        THEN [raised |-> TRUE, v |-> <<>>]
        ELSE [raised |-> FALSE,
              v |-> base \o <<"-">> \o bq[2] \o <<"-">> \o contract_type]

\* ----------------------------------------------------------- time windows

\* [raised |-> TRUE] stands for the ValueError of int()
time_to_minutes(s) ==
    LET parts == Split(Strip(s), ":")
    IN  IF Len(parts) # 2 THEN [raised |-> FALSE, v |-> -1]
        ELSE LET h == ParseInt(parts[1])
                 m == ParseInt(parts[2])
             IN  IF h.raised \/ m.raised THEN [raised |-> TRUE, v |-> 0]
                 ELSE [raised |-> FALSE, v |-> h.v * 60 + m.v]

DowNames == <<"Mon", "Tue", "Wed", "Thu", "Fri", "Sat", "Sun">>

dow_to_name(d) == DowNames[d + 1]

\* a window that crosses midnight tested with "and" in place of "or"
WindowStepNoWrap(w, dow, minutes) ==
    IF ~w.dict THEN Raise
    ELSE LET start == time_to_minutes(w.start)
             end == time_to_minutes(w.end)
         IN  IF start.raised \/ end.raised THEN Raise
             ELSE IF ~w.days.star /\ w.days.list /\ dow \notin w.days.names THEN "next"
             ELSE IF start.v <= minutes /\ minutes <= end.v THEN "T" ELSE "next"

\* the body of the for loop of now_in_windows for one window w at (dow, minutes):
\* "T" (return True), "next" (fall through to the next window) or "raise"
WindowStep(w, dow, minutes) ==
    IF ~w.dict THEN Raise
    ELSE LET start == time_to_minutes(w.start)
             end == time_to_minutes(w.end)
         IN  IF start.raised \/ end.raised THEN Raise
             ELSE IF ~w.days.star /\ w.days.list /\ dow \notin w.days.names THEN "next"
             ELSE IF start.v <= end.v
             THEN IF start.v <= minutes /\ minutes <= end.v THEN "T" ELSE "next"
             ELSE IF minutes >= start.v \/ minutes <= end.v THEN "T" ELSE "next"

RECURSIVE WindowsFrom(_, _, _, _)
WindowsFrom(windows, j, dow, minutes) ==
    IF j > Len(windows) THEN "F"
    ELSE LET r == WindowStep(windows[j], dow, minutes)
         IN  IF r = "next" THEN WindowsFrom(windows, j + 1, dow, minutes) ELSE r

\* now_in_windows with datetime.now() given as now = [weekday, hour, minute]:
\* "T", "F" or "raise"
now_in_windows(windows, now) ==
    IF windows = <<>> THEN "T"
    ELSE WindowsFrom(windows, 1, dow_to_name(now.weekday), now.hour * 60 + now.minute)

\* --------------------------------------------------------------- candles

\* a flat candle counted as rising
classify_candle_flat_bull(c) ==
    IF c.c >= c.o THEN "Bull" ELSE "Bear"

\* the labels of classify_candle, in the words of the spec
classify_candle(c) ==
    IF c.c > c.o THEN "Bull" ELSE IF c.c < c.o THEN "Bear" ELSE "Doji"

SignalLong == "long"
SignalShort == "short"

pattern_signal(last3) ==
    IF Len(last3) < 3 THEN None
    ELSE LET p == <<classify_candle(last3[1]), classify_candle(last3[2]),
                    classify_candle(last3[3])>>
         IN  IF p = <<"Bear", "Bear", "Bull">> THEN SignalLong
             ELSE IF p = <<"Bull", "Bull", "Bear">> THEN SignalShort
             ELSE None

\* -------------------------------------------------------------- notifier

\* what one http_get of send_telegram can do: a response with ok = true, a
\* response without it, an exception
SendOutcomes == {"ok", "notok", "raise"}

DefaultMaxRetries == 3

\* BackoffDelay with a fixed delay
BackoffDelayFixed(attempt) == 2

\* the sleep after a failed attempt
BackoffDelay(attempt) == 2 * attempt

\* the for loop of send_telegram from attempt k on, delays being the sleeps made
RECURSIVE SendFrom(_, _, _, _)
SendFrom(outs, max_retries, k, delays) ==
    IF k > max_retries
    THEN [ok |-> FALSE, attempts |-> k - 1, delays |-> delays]
    ELSE IF outs[k] = "ok"
    THEN [ok |-> TRUE, attempts |-> k, delays |-> delays]
    ELSE SendFrom(outs, max_retries, k + 1, Append(delays, BackoffDelay(k)))

\* send_telegram, outs[k] being what the k-th http_get does
send_telegram(outs, max_retries) == SendFrom(outs, max_retries, 1, <<>>)

\* ----------------------------------------------------- the config file

DaysStar == [star |-> TRUE, list |-> FALSE, names |-> {}]
DaysList(names) == [star |-> FALSE, list |-> TRUE, names |-> names]

Window(days, start, end) == [dict |-> TRUE, days |-> days, start |-> start, end |-> end]

\* {"days": "*", "start": "22:00", "end": "06:00"}
WinNight == Window(DaysStar, <<"2","2",":","0","0">>, <<"0","6",":","0","0">>)
\* {"days": ["Mon"], "start": "09:00", "end": "17:00"}
WinMonDay == Window(DaysList({"Mon"}), <<"0","9",":","0","0">>, <<"1","7",":","0","0">>)
\* {"days": "*", "start": "ab:cd", "end": "06:00"}
WinBadTime == Window(DaysStar, <<"a","b",":","c","d">>, <<"0","6",":","0","0">>)

WatcherEntry(pair, contract_type, bar, active_windows) ==
    [dict |-> TRUE, pair |-> pair, contract_type |-> contract_type, bar |-> bar,
     active_windows |-> active_windows]

\* {"pair": "BTC-USDT", "contract_type": "SWAP", "bar": "1h"}
W_BTC == WatcherEntry(<<"B","T","C","-","U","S","D","T">>, SWAP, <<"1","h">>, <<>>)
\* {"pair": "ethusdt", "contract_type": "swap", "bar": "1H", "active_windows": [WinMonDay]}
W_ETH == WatcherEntry(<<"e","t","h","u","s","d","t">>, <<"s","w","a","p">>, <<"1","H">>,
                      <<WinMonDay>>)
\* {"pair": "BTC/USDT", "contract_type": " swap", "bar": "1H",
\*  "active_windows": [WinMonDay]}: the key of W_BTC
W_BTC2 == WatcherEntry(<<"B","T","C","/","U","S","D","T">>, <<" ","s","w","a","p">>,
                       <<"1","H">>, <<WinMonDay>>)
\* {"pair": "XYZ", ...}: no base and quote
W_XYZ == WatcherEntry(<<"X","Y","Z">>, SWAP, <<"1","h">>, <<>>)
\* {"pair": "BTC-USDT", ..., "active_windows": [WinBadTime]}
W_BADWIN == WatcherEntry(<<"B","T","C","-","U","S","D","T">>, SWAP, <<"1","h">>,
                         <<WinBadTime>>)
\* a watcher entry that is a JSON string, not an object
W_STR == [dict |-> FALSE, pair |-> <<>>, contract_type |-> <<>>, bar |-> <<>>,
          active_windows |-> <<>>]

PollInt(n) == [raised |-> FALSE, v |-> n]
\* "poll_interval_seconds": "abc": int() raises
PollBad == [raised |-> TRUE, v |-> 0]

WatcherList(items) == [iter |-> TRUE, items |-> items]
\* "watchers": 5: not iterable
WatchersNumber == [iter |-> FALSE, items |-> <<>>]

ConfigFile(tok, chat, ssl, poll, ws, windows) ==
    [kind |-> "ok", telegram_token |-> tok, telegram_chat_id |-> chat,
     ssl_verify |-> ssl, poll_interval_seconds |-> poll, watchers |-> ws,
     active_windows |-> windows]

\* two watcher entries that resolve to one key
FileA == ConfigFile("tokA", "chatA", TRUE, PollInt(1), WatcherList(<<W_BTC, W_BTC2>>), <<>>)
FileB == ConfigFile("tokB", "chatB", FALSE, PollInt(2),
                    WatcherList(<<W_STR, W_XYZ, W_BTC2>>), <<WinNight>>)
FileBadPoll == ConfigFile("tokC", "chatC", FALSE, PollBad,
                          WatcherList(<<W_BTC2>>), <<WinMonDay>>)
FileNoToken == ConfigFile("", "chatA", TRUE, PollInt(1), WatcherList(<<W_ETH>>), <<>>)
FileBadWindow == ConfigFile("tokA", "chatA", TRUE, PollInt(1),
                            WatcherList(<<W_BTC>>), <<WinBadTime>>)
FileNegPoll == ConfigFile("tokA", "chatA", TRUE, PollInt(-1), WatcherList(<<W_BADWIN>>), <<>>)
FileNoWatchers == ConfigFile("tokA", "chatA", TRUE, PollInt(1), WatchersNumber, <<>>)
\* a file json.load cannot parse, and no file at all
FileBadJson == [ConfigFile("", "", TRUE, PollBad, WatchersNumber, <<>>) EXCEPT !.kind = "badjson"]
FileMissing == [ConfigFile("", "", TRUE, PollBad, WatchersNumber, <<>>) EXCEPT !.kind = "missing"]

Files == {FileA, FileB, FileBadPoll, FileNoToken, FileBadWindow, FileNegPoll,
          FileNoWatchers, FileBadJson, FileMissing}

OkFiles == {f \in Files : f.kind = "ok"}

\* the six loop variables as one record
Snapshot(tok, chat, ssl, poll, ws, windows) ==
    [token |-> tok, chat_id |-> chat, ssl_verify |-> ssl, poll_interval |-> poll,
     watchers |-> ws, global_windows |-> windows]

Active == Snapshot(token, chat_id, ssl_verify, poll_interval, watchers, global_windows)

\* what the loop variables are when every assignment of lines 270-275 (249-259)
\* is made from f
SnapshotOf(f) ==
    Snapshot(f.telegram_token, f.telegram_chat_id, f.ssl_verify,
             f.poll_interval_seconds.v, f.watchers, f.active_windows)

\* ---------------------------------------------------------- environment

\* datetime.now() as the windows read it: Monday or Saturday, 12:00 or 23:00
NowSet == {[weekday |-> d, hour |-> h, minute |-> 0] : d \in {0, 5}, h \in {12, 23}}

TsSet == 1..MaxTs

\* open and close of a bullish, a bearish and a flat candle
Shapes == {[o |-> 2, c |-> 3], [o |-> 3, c |-> 2], [o |-> 2, c |-> 2]}

Flat == [o |-> 2, c |-> 2]

\* the closed candles a fetch can return, newest first, the newest with ts t:
\* the three newest of any shape, the older ones flat
ClosedLists ==
    UNION { { [j \in 1..n |-> [ts |-> t - (j - 1),
                               o |-> IF j <= 3 THEN sh[j].o ELSE Flat.o,
                               c |-> IF j <= 3 THEN sh[j].c ELSE Flat.c]] :
                t \in TsSet, sh \in [1..3 -> Shapes] } : n \in 0..MaxCandles }

\* fetch_closed_candles raises (network, HTTP, payload) or returns the closed candles
FetchResults ==
    {[raised |-> TRUE, closed |-> <<>>]} \cup {[raised |-> FALSE, closed |-> cl] : cl \in ClosedLists}

\* ------------------------------------------------------------- dedup map

NoKey == <<(<<>>), (<<>>)>>

EmptyMap == [k \in {} |-> 0]

\* key in dict: dict.get(key) is not None
HasKey(m, k) == k \in DOMAIN m

\* dict[key] = value
MapPut(m, k, v) == [x \in (DOMAIN m) \cup {k} |-> IF x = k THEN v ELSE m[x]]

\* RecordTs left out: the map is not written before the send
RecordTsNot(m, k, ts) == m

\* line 300: state_last_closed_ts[key] = ts
RecordTs(m, k, ts) == MapPut(m, k, ts)

\* DedupSkip that also skips a key with no recorded timestamp
DedupSkipUnseen(m, k, ts) == ~HasKey(m, k) \/ ts = m[k]

\* DedupSkip with the comparison the wrong way round
DedupSkipOnChange(m, k, ts) == HasKey(m, k) /\ ts # m[k]

\* DedupSkip without the check
DedupSkipNever(m, k, ts) == FALSE

\* line 298: the candle is the one already recorded for the key
DedupSkip(m, k, ts) == HasKey(m, k) /\ ts = m[k]

\* the key line 296 builds for a watcher entry whose pair parses
KeyOf(w) == <<pair_to_inst_id(w.pair, w.contract_type).v, normalize_bar(w.bar)>>

WatcherEntries ==
    UNION { {f.watchers.items[j] : j \in 1..Len(f.watchers.items)} :
              f \in {g \in OkFiles : g.watchers.iter} }

\* the keys the watchers of the config files resolve to
AllKeys ==
    { KeyOf(w) : w \in {x \in WatcherEntries :
                          x.dict /\ ~pair_to_inst_id(x.pair, x.contract_type).raised} }

\* the pair whose send_telegram calls sent_watch counts
Watched == [key |-> KeyOf(W_BTC), ts |-> 1]

\* pair_to_inst_id, normalize_bar and now_in_windows on the values the config
\* files hold, computed once
InstIdTable ==
    [w \in {x \in WatcherEntries : x.dict} |-> pair_to_inst_id(w.pair, w.contract_type)]

BarTable == [w \in {x \in WatcherEntries : x.dict} |-> normalize_bar(w.bar)]

WindowLists ==
    {f.active_windows : f \in OkFiles}
      \cup {w.active_windows : w \in {x \in WatcherEntries : x.dict}}

WindowTable == [ws \in WindowLists, now \in NowSet |-> now_in_windows(ws, now)]

\* the results send_telegram can give in the loop
SendResults ==
    {send_telegram(outs, DefaultMaxRetries).ok :
       outs \in [1..DefaultMaxRetries -> SendOutcomes]}

\* ------------------------------------------------------------ run_monitor

\* what a watcher iteration did: the stage it ended at, the key and the newest
\* closed timestamp it fetched, the signal of the three newest closed candles,
\* what send_telegram returned, what the watcher's own window check returned
\* ("absent" when the watcher has no windows)
Event(stage, key, ts, sig, ok, wnd) ==
    [stage |-> stage, key |-> key, ts |-> ts, sig |-> sig, ok |-> ok, wnd |-> wnd]

\* the stages of an iteration that got three closed candles and reached line 295
EvaluatedStages == {"dedup", "nosignal", "send"}

NoEv == Event("none", NoKey, 0, None, FALSE, "absent")

\* no direct call of pattern_signal or now_in_windows was made
NoPure == [fn |-> "none", arg |-> <<>>, res |-> None]

NoCall == [max_retries |-> -1, outs |-> <<>>, ok |-> FALSE, attempts |-> 0, delays |-> <<>>]

Init ==
    /\ pc = "start"
    /\ i = 0
    /\ file_content \in Files
    /\ file_mtime = 0
    /\ last_mtime = 0
    /\ token = ""
    /\ chat_id = ""
    /\ ssl_verify = TRUE
    /\ poll_interval = 0
    /\ watchers = WatcherList(<<>>)
    /\ global_windows = <<>>
    /\ state_last_closed_ts = EmptyMap
    /\ gate = FALSE
    /\ ev = NoEv
    /\ last_fetched = EmptyMap
    /\ sent_watch = 0
    /\ send_call = NoCall
    /\ pure_call = NoPure

\* not token or not chat_id (line 252)
CredentialsMissing(tok, chat) == tok = "" \/ chat = ""

\* lines 247-262: load the file, check the credentials, set the loop variables
Startup ==
    /\ pc = "start"
    /\ LET f == file_content
       IN  IF f.kind # "ok"
           THEN pc' = "startup_error" /\ UNCHANGED <<cfgvars, last_mtime>>
           ELSE IF CredentialsMissing(f.telegram_token, f.telegram_chat_id)
           THEN pc' = "exited" /\ UNCHANGED <<cfgvars, last_mtime>>
           ELSE IF f.poll_interval_seconds.raised
           THEN pc' = "startup_error" /\ UNCHANGED <<cfgvars, last_mtime>>
           ELSE /\ pc' = "reload"
                /\ token' = f.telegram_token
                /\ chat_id' = f.telegram_chat_id
                /\ ssl_verify' = f.ssl_verify
                /\ poll_interval' = f.poll_interval_seconds.v
                /\ watchers' = f.watchers
                /\ global_windows' = f.active_windows
                /\ last_mtime' = file_mtime
    /\ UNCHANGED <<i, filevars, state_last_closed_ts, gate, ev, last_fetched, sent_watch, send_call, pure_call>>

\* ReloadNeeded without the comparison: the file is loaded in every tick
ReloadNeededAlways(mtime, last) == TRUE

\* line 267: the file's modification time differs from the recorded one
ReloadNeeded(mtime, last) == mtime # last

\* LoadInto that leaves the watcher list as it was
LoadIntoKeepsWatchers(f, cur) ==
    IF f.kind # "ok" THEN cur
    ELSE IF f.poll_interval_seconds.raised
    THEN [cur EXCEPT !.token = f.telegram_token, !.chat_id = f.telegram_chat_id,
                     !.ssl_verify = f.ssl_verify]
    ELSE [SnapshotOf(f) EXCEPT !.watchers = cur.watchers]

\* lines 269-275 on the loop variables cur: the assignments run in order and the
\* first exception (json.load, int()) ends them
LoadInto(f, cur) ==
    IF f.kind # "ok" THEN cur
    ELSE IF f.poll_interval_seconds.raised
    THEN [cur EXCEPT !.token = f.telegram_token, !.chat_id = f.telegram_chat_id,
                     !.ssl_verify = f.ssl_verify]
    ELSE SnapshotOf(f)

\* ReloadCheck with the dedup map emptied whenever the file is loaded
ReloadCheckClearsState ==
    /\ pc = "reload"
    /\ pc' = "gate"
    /\ IF file_content.kind # "missing" /\ ReloadNeeded(file_mtime, last_mtime)
       THEN LET new == LoadInto(file_content, Active)
            IN  /\ last_mtime' = file_mtime
                /\ token' = new.token
                /\ chat_id' = new.chat_id
                /\ ssl_verify' = new.ssl_verify
                /\ poll_interval' = new.poll_interval
                /\ watchers' = new.watchers
                /\ global_windows' = new.global_windows
                /\ state_last_closed_ts' = EmptyMap
       ELSE UNCHANGED <<cfgvars, last_mtime, state_last_closed_ts>>
    /\ UNCHANGED <<i, filevars, gate, ev, last_fetched, sent_watch, send_call, pure_call>>

\* lines 265-278: the reload check. getmtime raises when there is no file, and
\* the except clause swallows whatever is raised
ReloadCheck ==
    /\ pc = "reload"
    /\ pc' = "gate"
    /\ IF file_content.kind # "missing" /\ ReloadNeeded(file_mtime, last_mtime)
       THEN LET new == LoadInto(file_content, Active)
            IN  /\ last_mtime' = file_mtime
                /\ token' = new.token
                /\ chat_id' = new.chat_id
                /\ ssl_verify' = new.ssl_verify
                /\ poll_interval' = new.poll_interval
                /\ watchers' = new.watchers
                /\ global_windows' = new.global_windows
       ELSE UNCHANGED <<cfgvars, last_mtime>>
    /\ UNCHANGED <<i, filevars, state_last_closed_ts, gate, ev, last_fetched, sent_watch, send_call, pure_call>>

\* GatePasses with the result of the check negated
GatePassesOnFalse(r) == r # "T"

\* GatePasses without the check
GatePassesAlways(r) == TRUE

\* line 279: the tick goes on to the watchers
GatePasses(r) == r = "T"

\* lines 279-282: the global window check, then the for statement
Gate ==
    /\ pc = "gate"
    /\ \E now \in NowSet :
         LET r == WindowTable[global_windows, now]
         IN  IF r = Raise
             THEN pc' = "crashed" /\ i' = 0 /\ gate' = FALSE
             ELSE /\ gate' = (r = "T")
                  /\ IF ~GatePasses(r) THEN pc' = "sleep" /\ i' = 0
                     ELSE IF ~watchers.iter THEN pc' = "crashed" /\ i' = 0
                     ELSE IF watchers.items = <<>> THEN pc' = "sleep" /\ i' = 0
                     ELSE pc' = "watchers" /\ i' = 1
    /\ ev' = NoEv
    /\ UNCHANGED <<filevars, cfgvars, last_mtime, state_last_closed_ts, last_fetched,
                   sent_watch, send_call, pure_call>>

\* ExceptCaught for an except clause that names the fetch errors only
ExceptCaughtFetchOnly(exc) == exc = "FetchError"

\* line 320: except Exception catches what a watcher iteration raises:
\* AttributeError (an entry that is no dict), ValueError (int(), pair_to_inst_id),
\* and what fetch_closed_candles raises
ExceptCaught(exc) == exc \in {"AttributeError", "ValueError", "FetchError"}

\* line 288: the watcher has windows of its own and none holds now
WindowExcludes(w_windows, r) == w_windows # <<>> /\ r # "T"

Min(a, b) == IF a < b THEN a ELSE b

\* the for loop moves to the next watcher, or ends and the tick goes to sleep
Advance ==
    IF i < Len(watchers.items)
    THEN pc' = "watchers" /\ i' = i + 1
    ELSE pc' = "sleep" /\ i' = 0

\* the end of an iteration that did e and left the dedup map m
Finish(e, m) ==
    /\ ev' = e
    /\ state_last_closed_ts' = m
    /\ last_fetched' = IF e.stage \in EvaluatedStages
                       THEN MapPut(last_fetched, e.key, e.ts)
                       ELSE last_fetched
    /\ sent_watch' = IF e.stage = "send" /\ Watched = [key |-> e.key, ts |-> e.ts]
                     THEN Min(sent_watch + 1, MaxSent)
                     ELSE sent_watch
    /\ Advance

\* an exception raised in the try block of lines 283-322
Thrown(exc, e) ==
    IF ExceptCaught(exc)
    THEN Finish(e, state_last_closed_ts)
    ELSE /\ pc' = "crashed"
         /\ i' = 0
         /\ ev' = e
         /\ UNCHANGED <<state_last_closed_ts, last_fetched, sent_watch>>

\* Evaluate with the timestamp recorded only when an alert is sent
EvaluateRecordOnSend(key, closed, wnd) ==
    LET ts == closed[1].ts
        sig == pattern_signal(<<closed[3], closed[2], closed[1]>>)
        m == RecordTs(state_last_closed_ts, key, ts)
    IN  IF DedupSkip(state_last_closed_ts, key, ts)
        THEN Finish(Event("dedup", key, ts, sig, FALSE, wnd), state_last_closed_ts)
        ELSE IF sig = None
        THEN Finish(Event("nosignal", key, ts, sig, FALSE, wnd), state_last_closed_ts)
        ELSE \E ok \in SendResults : Finish(Event("send", key, ts, sig, ok, wnd), m)

\* lines 295-318 for the closed candles of key, the watcher's window check
\* having returned wnd
Evaluate(key, closed, wnd) ==
    LET ts == closed[1].ts
        sig == pattern_signal(<<closed[3], closed[2], closed[1]>>)
        m == RecordTs(state_last_closed_ts, key, ts)
    IN  IF DedupSkip(state_last_closed_ts, key, ts)
        THEN Finish(Event("dedup", key, ts, sig, FALSE, wnd), state_last_closed_ts)
        ELSE IF sig = None
        THEN Finish(Event("nosignal", key, ts, sig, FALSE, wnd), m)
        ELSE \E ok \in SendResults : Finish(Event("send", key, ts, sig, ok, wnd), m)

\* Fetch with the newest timestamp recorded before the length check
FetchRecordFirst(w, wnd) ==
    LET inst == InstIdTable[w]
        key == <<inst.v, BarTable[w]>>
    IN  IF inst.raised
        THEN Thrown("ValueError", Event("pair", NoKey, 0, None, FALSE, wnd))
        ELSE \E fetched \in FetchResults :
               IF fetched.raised
               THEN Thrown("FetchError", Event("fetch", key, 0, None, FALSE, wnd))
               ELSE IF Len(fetched.closed) < 3
               THEN Finish(Event("few", key, 0, None, FALSE, wnd),
                           IF fetched.closed = <<>> THEN state_last_closed_ts
                           ELSE RecordTs(state_last_closed_ts, key, fetched.closed[1].ts))
               ELSE Evaluate(key, fetched.closed, wnd)

\* lines 290-294 for the watcher entry w
Fetch(w, wnd) ==
    LET inst == InstIdTable[w]
        key == <<inst.v, BarTable[w]>>
    IN  IF inst.raised
        THEN Thrown("ValueError", Event("pair", NoKey, 0, None, FALSE, wnd))
        ELSE \E fetched \in FetchResults :
               IF fetched.raised
               THEN Thrown("FetchError", Event("fetch", key, 0, None, FALSE, wnd))
               ELSE IF Len(fetched.closed) < 3
               THEN Finish(Event("few", key, 0, None, FALSE, wnd), state_last_closed_ts)
               ELSE Evaluate(key, fetched.closed, wnd)

\* lines 282-322: one iteration of the for loop
Watcher ==
    /\ pc = "watchers"
    /\ LET w == watchers.items[i]
       IN  IF ~w.dict
           THEN Thrown("AttributeError", Event("shape", NoKey, 0, None, FALSE, "absent"))
           ELSE IF w.active_windows = <<>>
           THEN Fetch(w, "absent")
           ELSE \E now \in NowSet :
                  LET r == WindowTable[w.active_windows, now]
                  IN  IF r = Raise
                      THEN Thrown("ValueError",
                                  Event("window", NoKey, 0, None, FALSE, Raise))
                      ELSE IF WindowExcludes(w.active_windows, r)
                      THEN Finish(Event("window", NoKey, 0, None, FALSE, r),
                                  state_last_closed_ts)
                      ELSE Fetch(w, r)
    /\ UNCHANGED <<filevars, cfgvars, last_mtime, gate, send_call, pure_call>>

\* lines 280 and 324: time.sleep(poll_interval) raises ValueError on a negative value
Sleep ==
    /\ pc = "sleep"
    /\ pc' = IF poll_interval < 0 THEN "crashed" ELSE "reload"
    /\ gate' = FALSE
    /\ ev' = NoEv
    /\ UNCHANGED <<i, filevars, cfgvars, last_mtime, state_last_closed_ts, last_fetched,
                   sent_watch, send_call, pure_call>>

Running == pc \in {"reload", "gate", "watchers", "sleep"}

\* somebody writes, replaces, touches or removes the config file. The monitor
\* reads the file at the reload check only, so whatever is done to the file
\* during a tick is one edit made before the check of the next tick
EditFile ==
    /\ pc = "reload"
    /\ \E f \in Files, t \in 0..MaxMtime :
         /\ <<f, t>> # <<file_content, file_mtime>>
         /\ file_content' = f
         /\ file_mtime' = t
    /\ UNCHANGED <<pc, i, cfgvars, last_mtime, state_last_closed_ts, gate, ev,
                   last_fetched, sent_watch, send_call, pure_call>>

Next == Startup \/ ReloadCheck \/ Gate \/ Watcher \/ Sleep \/ EditFile

Spec == Init /\ [][Next]_vars

\* ------------------------------------------------- send_telegram alone

\* send_telegram called with any max_retries and any outcome of each http_get
CallSend ==
    /\ \E mr \in 0..MaxRetries :
         \E outs \in [1..mr -> SendOutcomes] :
           LET r == send_telegram(outs, mr)
           IN  send_call' = [max_retries |-> mr, outs |-> outs, ok |-> r.ok,
                             attempts |-> r.attempts, delays |-> r.delays]
    /\ UNCHANGED <<pc, i, filevars, cfgvars, last_mtime, state_last_closed_ts, gate, ev,
                   last_fetched, sent_watch, pure_call>>

InitSend == Init /\ file_content = FileA

NextSend == CallSend

SpecSend == InitSend /\ [][NextSend]_vars

\* --------------------------- pattern_signal and now_in_windows alone

\* candles by their open and close prices
Candles == {[o |-> o, c |-> c] : o \in 1..MaxPrice, c \in 1..MaxPrice}

\* pattern_signal called once with any list of up to MaxCandles candles, oldest first
CallPattern ==
    /\ pure_call = NoPure
    /\ \E n \in 0..MaxCandles :
         \E last3 \in [1..n -> Candles] :
           pure_call' = [fn |-> "pattern_signal", arg |-> last3,
                         res |-> pattern_signal(last3)]
    /\ UNCHANGED <<pc, i, filevars, cfgvars, last_mtime, state_last_closed_ts, gate, ev,
                   last_fetched, sent_watch, send_call>>

\* "HH:MM" as a configuration file writes hour h and minute m
HHMM(h, m) ==
    <<Digits[(h \div 10) + 1], Digits[(h % 10) + 1], ":",
      Digits[(m \div 10) + 1], Digits[(m % 10) + 1]>>

\* the "days" values of the windows tried
DaysTried == {DaysStar, DaysList({"Mon"}), DaysList({"Sat", "Sun"}), DaysList({})}

\* start and end of the windows tried, as <<hour, minute, hour, minute>>:
\* across midnight, within one day, a single minute
TimesTried == {<<22, 0, 6, 0>>, <<9, 0, 17, 0>>, <<6, 30, 6, 30>>}

\* well-formed windows by their numbers
WindowsTried == {[days |-> d, sh |-> t[1], sm |-> t[2], eh |-> t[3], em |-> t[4]] :
                   d \in DaysTried, t \in TimesTried}

\* the window entry of the configuration file for the numbers of n
WindowOf(n) == Window(n.days, HHMM(n.sh, n.sm), HHMM(n.eh, n.em))

\* the values of datetime.now() tried: the borders of the windows and points
\* on either side of them
NowsTried ==
    {[weekday |-> d, hour |-> t[1], minute |-> t[2]] :
       d \in {0, 5, 6},
       t \in {<<0, 0>>, <<5, 0>>, <<6, 0>>, <<6, 1>>, <<6, 29>>, <<6, 30>>, <<6, 31>>,
              <<8, 59>>, <<9, 0>>, <<12, 0>>, <<17, 0>>, <<17, 1>>, <<21, 59>>,
              <<22, 0>>, <<23, 0>>}}

\* now_in_windows called once with any list of up to MaxWindows well-formed windows
CallWindows ==
    /\ pure_call = NoPure
    /\ \E k \in 0..MaxWindows :
         \E ns \in [1..k -> WindowsTried] :
           \E now \in NowsTried :
             pure_call' = [fn |-> "now_in_windows", arg |-> [windows |-> ns, now |-> now],
                           res |-> now_in_windows([j \in 1..k |-> WindowOf(ns[j])], now)]
    /\ UNCHANGED <<pc, i, filevars, cfgvars, last_mtime, state_last_closed_ts, gate, ev,
                   last_fetched, sent_watch, send_call>>

InitPure == Init /\ file_content = FileA

NextPure == CallPattern \/ CallWindows

SpecPure == InitPure /\ [][NextPure]_vars

\* ----------------------------------------------------------------- claims

\* a step of the for loop: Watcher is the only action enabled at "watchers"
WatcherStep == pc = "watchers" /\ ev'.stage # "none"

Recorded(k, ts) == HasKey(state_last_closed_ts, k) /\ state_last_closed_ts[k] = ts

\* C1 as stated: over the lifetime of the process at most one send_telegram
\* call is made for a pair (key, T); sent_watch counts the calls for the pair
\* Watched.
C1_AtMostOneSendPerLifetime == sent_watch <= 1

\* C1 as amended: a send for (key, T) is made only by an iteration that finds
\* no timestamp or a different timestamp recorded for the key, and that
\* iteration records T; so two sends for the same (key, T) have the recording
\* of a different timestamp for that key between them.
C1_SendOnlyForUnrecordedTimestamp ==
    [][(WatcherStep /\ ev'.stage = "send")
         => /\ ~Recorded(ev'.key, ev'.ts)
            /\ HasKey(state_last_closed_ts', ev'.key)
            /\ state_last_closed_ts'[ev'.key] = ev'.ts]_vars

\* the pair Watched was sent a second time, and is the recorded timestamp again
C1_Witness ==
    /\ ev.stage = "send"
    /\ [key |-> ev.key, ts |-> ev.ts] = Watched
    /\ sent_watch = 2
    /\ Recorded(ev.key, ev.ts)

\* C2: when the fetch evaluated for a key returns the newest closed timestamp
\* T and three candles that form a reversal pattern, the alert is sent if the
\* previous fetch evaluated for that key returned another newest timestamp (or
\* there was none), and no send is made if it returned T as well.
C2_SameTimestampSentOnce ==
    [][(WatcherStep /\ ev'.stage \in EvaluatedStages /\ ev'.sig # None)
         => IF HasKey(last_fetched, ev'.key) /\ last_fetched[ev'.key] = ev'.ts
            THEN ev'.stage = "dedup" /\ sent_watch' = sent_watch
            ELSE ev'.stage = "send"]_vars

\* a reversal pattern whose newest timestamp was fetched before is skipped
C2_Witness ==
    /\ ev.stage = "dedup"
    /\ ev.sig # None
    /\ sent_watch = 1
    /\ [key |-> ev.key, ts |-> ev.ts] = Watched

\* C3: a send is made only in a tick whose global window check returned true,
\* by a watcher with no windows of its own or whose window check returned true.
C3_SendsOnlyInsideWindows ==
    ev.stage = "send" => gate /\ ev.wnd \in {"absent", "T"}

\* a send with global windows and watcher windows both configured
C3_Witness ==
    /\ ev.stage = "send"
    /\ global_windows # <<>>
    /\ ev.wnd = "T"

ErrorStages == {"shape", "pair", "fetch"}

\* C4: an iteration that raises (an entry of the wrong shape, a pair that does
\* not parse, a failed fetch, a window of the watcher that does not parse)
\* ends like any other: the for loop is at the next watcher, or at the tick's
\* sleep after the last one, and the dedup map is untouched.
C4_WatcherErrorIsContained ==
    [][(WatcherStep /\ (ev'.stage \in ErrorStages \/ ev'.wnd = Raise))
         => /\ IF i < Len(watchers.items)
               THEN pc' = "watchers" /\ i' = i + 1
               ELSE pc' = "sleep"
            /\ state_last_closed_ts' = state_last_closed_ts]_vars

\* the watcher after two failing ones is being processed
C4_Witness ==
    /\ pc = "watchers"
    /\ i = 3
    /\ ev.stage = "pair"

\* C5: the loop never ends in an error.
C5_LoopNeverCrashes == pc # "crashed"

\* C6: a send that fails leaves the candle's timestamp recorded for the key,
\* and an iteration that fetches the recorded timestamp makes no send.
C6_FailedSendStaysRecorded ==
    [][WatcherStep
         => /\ (ev'.stage = "send" /\ ~ev'.ok)
                 => /\ HasKey(state_last_closed_ts', ev'.key)
                    /\ state_last_closed_ts'[ev'.key] = ev'.ts
            /\ (ev'.stage \in EvaluatedStages /\ Recorded(ev'.key, ev'.ts))
                 => ev'.stage = "dedup" /\ sent_watch' = sent_watch]_vars

\* a failed send, its timestamp recorded
C6_Witness ==
    /\ ev.stage = "send"
    /\ ~ev.ok
    /\ Recorded(ev.key, ev.ts)

\* C7: the six loop variables are those of one loaded version of the file.
C7_ActiveIsOneSnapshot ==
    Running => \E f \in OkFiles :
                 ~f.poll_interval_seconds.raised /\ Active = SnapshotOf(f)

\* C8: a reload check that finds the file's modification time equal to the
\* recorded one changes none of the loop variables.
C8_SameMtimeNoReload ==
    [][(pc = "reload" /\ pc' = "gate" /\ file_mtime = last_mtime)
         => UNCHANGED <<cfgvars, last_mtime>>]_vars

\* the check is over and the file, its modification time the recorded one, holds
\* a valid configuration that is not the active one
C8_Witness ==
    /\ pc = "gate"
    /\ file_mtime = last_mtime
    /\ file_content \in {FileA, FileB}
    /\ Active \in {SnapshotOf(FileA), SnapshotOf(FileB)}
    /\ Active # SnapshotOf(file_content)

\* C9: the watchers are never processed without a token and a chat id.
C9_NoPassWithoutCredentials == pc = "watchers" => token # "" /\ chat_id # ""

\* C10: send_telegram makes at most max_retries attempts; it returns true at
\* the first attempt that gets ok = true and false when none does; it sleeps
\* 2 * k seconds after the failed attempt k.
C10_SendTelegramBounded ==
    LET c == send_call
        oks == {k \in 1..c.max_retries : c.outs[k] = "ok"}
    IN  c.max_retries >= 0
          => /\ c.attempts <= c.max_retries
             /\ c.ok = (oks # {})
             /\ c.ok => c.attempts \in oks /\ \A k \in oks : c.attempts <= k
             /\ ~c.ok => c.attempts = c.max_retries
             /\ Len(c.delays) = IF c.ok THEN c.attempts - 1 ELSE c.attempts
             /\ \A k \in 1..Len(c.delays) : c.delays[k] = 2 * k
             /\ \A k \in 2..Len(c.delays) : c.delays[k - 1] < c.delays[k]

\* the default three attempts all fail
C10_Witness ==
    /\ send_call.max_retries = DefaultMaxRetries
    /\ ~send_call.ok
    /\ send_call.attempts = 3
    /\ send_call.delays = <<2, 4, 6>>

\* the class of a candle as the specification words it: close above open is
\* Bull, close below open is Bear, close equal to open is Doji
C11_Class(c) ==
    CASE c.c > c.o -> "Bull"
      [] c.c < c.o -> "Bear"
      [] c.c = c.o -> "Doji"

\* C11: for three candles given oldest first, pattern_signal returns the
\* bullish signal exactly when their classes are Bear, Bear, Bull, the bearish
\* signal exactly when they are Bull, Bull, Bear, and no signal for each of the
\* other 25 class sequences; with fewer than three candles it returns no signal.
C11_PatternSignalTable ==
    pure_call.fn = "pattern_signal" =>
      LET a == pure_call.arg
      IN  IF Len(a) < 3
          THEN pure_call.res = None
          ELSE LET p == <<C11_Class(a[1]), C11_Class(a[2]), C11_Class(a[3])>>
               IN  /\ pure_call.res = SignalLong <=> p = <<"Bear", "Bear", "Bull">>
                   /\ pure_call.res = SignalShort <=> p = <<"Bull", "Bull", "Bear">>
                   /\ pure_call.res \in {SignalLong, SignalShort, None}

\* two falling candles and a rising one give the bullish signal
C11_Witness ==
    /\ pure_call.fn = "pattern_signal"
    /\ pure_call.arg = <<[o |-> 3, c |-> 2], [o |-> 2, c |-> 1], [o |-> 1, c |-> 3]>>
    /\ pure_call.res = SignalLong

\* a window, given by its numbers, matches the weekday and the minute of now
C12_Matches(n, now) ==
    LET minute == now.hour * 60 + now.minute
        start == n.sh * 60 + n.sm
        end == n.eh * 60 + n.em
    IN  /\ n.days.star \/ DowNames[now.weekday + 1] \in n.days.names
        /\ IF start <= end
           THEN start <= minute /\ minute <= end
           ELSE minute >= start \/ minute <= end

\* C12: now_in_windows returns true exactly when the window list is empty or
\* some window of it matches both the weekday (days "*" matches any day, a days
\* list must hold the weekday) and the minute of the day (start <= end: start <=
\* minute <= end; start > end: minute >= start or minute <= end).
C12_NowInWindows ==
    pure_call.fn = "now_in_windows" =>
      LET ns == pure_call.arg.windows
          now == pure_call.arg.now
      IN  pure_call.res =
            IF ns = <<>> \/ \E j \in 1..Len(ns) : C12_Matches(ns[j], now)
            THEN "T" ELSE "F"

\* the window 22:00-06:00 of every day holds at minute 300 (05:00)
C12_Witness ==
    /\ pure_call.fn = "now_in_windows"
    /\ pure_call.arg.windows = <<[days |-> DaysStar, sh |-> 22, sm |-> 0, eh |-> 6, em |-> 0]>>
    /\ pure_call.arg.now.hour = 5
    /\ pure_call.res = "T"

\* C13: in every tick the global window check is made once, after the reload
\* check and before any watcher. When it returns false the tick fetches
\* nothing, sends nothing, leaves the dedup state alone and goes to sleep. When
\* it returns true the for loop visits every watcher of the snapshot, one after
\* the other, without making the global check again, whatever the clock says
\* meanwhile. (A check that raises, or watchers that are no list, end the loop.)
C13_GlobalGateOncePerTick ==
    [][/\ (pc = "reload" /\ pc' # pc) => pc' = "gate"
       /\ pc = "gate" =>
            /\ UNCHANGED <<state_last_closed_ts, last_fetched, sent_watch>>
            /\ IF gate'
               THEN \/ pc' = "watchers" /\ i' = 1
                    \/ pc' = "sleep" /\ watchers.items = <<>>
                    \/ pc' = "crashed" /\ ~watchers.iter
               ELSE pc' \in {"sleep", "crashed"}
       /\ pc = "watchers" =>
            /\ gate /\ gate'
            /\ IF i < Len(watchers.items)
               THEN pc' = "watchers" /\ i' = i + 1
               ELSE pc' = "sleep"
       /\ gate' # gate => pc \in {"gate", "sleep"}]_vars

\* a tick whose global window (22:00-06:00) held at its start has gone through
\* all its watchers, the last of them at a time of day outside that window
\* (its own window, Mon 09:00-17:00, held)
C13_Witness ==
    /\ pc = "sleep"
    /\ gate
    /\ global_windows = <<WinNight>>
    /\ ev.stage \in EvaluatedStages
    /\ ev.wnd = "T"

\* the stages at which an iteration ends before the dedup check of line 296
SkippedStages == {"window", "pair", "fetch", "few"}

\* C14: a watcher iteration that ends before the dedup check (its own window
\* does not hold, the pair cannot be parsed, the fetch fails, fewer than three
\* closed candles come back) leaves the dedup state of every key as it was.
C14_SkippedIterationKeepsDedup ==
    [][(WatcherStep /\ ev'.stage \in SkippedStages)
         => state_last_closed_ts' = state_last_closed_ts]_vars

\* an iteration got fewer than three closed candles for a key that has a
\* recorded timestamp
C14_Witness ==
    /\ ev.stage = "few"
    /\ HasKey(state_last_closed_ts, ev.key)

\* C15: the reload check, whether or not it loads the file, leaves the dedup
\* state as it was: every key keeps its recorded timestamp (so the same
\* timestamp is still suppressed after the reload) and no key gains one (a key
\* first named by the new configuration has no recorded timestamp).
C15_ReloadKeepsDedup ==
    [][pc = "reload" => state_last_closed_ts' = state_last_closed_ts]_vars

\* a configuration without a BTC watcher was loaded by a reload check, and the
\* timestamp recorded for the BTC key before that is still there
C15_Witness ==
    /\ pc = "gate"
    /\ Active = SnapshotOf(FileNoToken)
    /\ HasKey(state_last_closed_ts, KeyOf(W_BTC))

\* C16: an iteration that fetches three or more closed candles for a key with
\* no recorded timestamp, or with a recorded timestamp other than the newest
\* one fetched, is not suppressed by the dedup check; and when the three newest
\* closed candles form a reversal pattern it makes the alert send before the
\* for loop moves on, that is within the same tick.
C16_NewTimestampIsEvaluated ==
    [][(WatcherStep /\ ev'.stage \in EvaluatedStages /\ ~Recorded(ev'.key, ev'.ts))
         => /\ ev'.stage # "dedup"
            /\ ev'.sig # None => ev'.stage = "send"
            /\ ev'.sig = None => ev'.stage = "nosignal"]_vars

\* a send for the observed key at timestamp 2, made after a send for its
\* timestamp 1
C16_Witness ==
    /\ ev.stage = "send"
    /\ ev.key = Watched.key
    /\ ev.ts = 2
    /\ sent_watch = 1

\* C17 as stated: a timestamp stored for a key is one for which an alert send
\* was made for that key; for the observed pair, whose sends sent_watch counts
C17_StoredTimestampWasNotified ==
    Recorded(Watched.key, Watched.ts) => sent_watch >= 1

\* C17: the dedup state maps each key to the newest closed timestamp of the
\* last fetch evaluated for it (a fetch of three or more closed candles by a
\* watcher inside its windows), whether or not an alert was sent for it; keys
\* with no evaluated fetch have no entry.
C17_StoredTimestampWasEvaluated ==
    state_last_closed_ts = last_fetched

\* the timestamp of the observed pair is recorded and no send was made for
\* it: its three newest candles formed no pattern
C17_Witness ==
    /\ ev.stage = "nosignal"
    /\ [key |-> ev.key, ts |-> ev.ts] = Watched
    /\ Recorded(ev.key, ev.ts)
    /\ sent_watch = 0

\* the watcher entries of the active snapshot that resolve to a key
C18_Keyed ==
    {j \in 1..Len(watchers.items) :
       watchers.items[j].dict /\ ~InstIdTable[watchers.items[j]].raised}

\* C18: in every active snapshot no two watcher entries resolve to the same
\* dedup key (pair_to_inst_id(pair, contract_type), normalize_bar(bar)).
C18_OneWatcherPerKey ==
    Running =>
      \A j, k \in C18_Keyed :
        j # k => <<InstIdTable[watchers.items[j]].v, BarTable[watchers.items[j]]>>
                   # <<InstIdTable[watchers.items[k]].v, BarTable[watchers.items[k]]>>

\* content every assignment of lines 269-275 accepts: JSON whose
\* poll_interval_seconds int() converts
C19_ValidContent(f) == f.kind = "ok" /\ ~f.poll_interval_seconds.raised

\* C19: a reload check that finds valid content in the file, under a
\* modification time other than the recorded one, installs all of it (watchers,
\* windows, poll interval, credentials) and records the modification time; and
\* the active configuration changes at no other step, so while the file stays
\* as it is every later tick runs with that content.
C19_ReloadInstallsFinalContent ==
    [][/\ (/\ pc = "reload" /\ pc' = "gate"
           /\ C19_ValidContent(file_content)
           /\ file_mtime # last_mtime)
            => /\ Active' = SnapshotOf(file_content)
               /\ last_mtime' = file_mtime
       /\ (Running /\ <<Active, last_mtime>>' # <<Active, last_mtime>>)
            => pc = "reload" /\ file_mtime # last_mtime]_vars

\* the monitor, which has evaluated the ETH watcher of an earlier
\* configuration, runs with the content the file now has
C19_Witness ==
    /\ pc = "gate"
    /\ file_content = FileB
    /\ Active = SnapshotOf(FileB)
    /\ last_mtime = file_mtime
    /\ HasKey(state_last_closed_ts, KeyOf(W_ETH))

\* C20: a tick runs through and the next one starts: the global window check
\* leads to the for loop or to the sleep, the for loop visits the watchers one
\* after the other in the order of the list and then leads to the sleep, and
\* the sleep leads to the reload check of a new tick.
C20_TickRunsThroughToNextTick ==
    [][/\ pc = "gate" => pc' \in {"watchers", "sleep"}
       /\ pc = "watchers" =>
            IF i < Len(watchers.items)
            THEN pc' = "watchers" /\ i' = i + 1
            ELSE pc' = "sleep"
       /\ pc = "sleep" => pc' = "reload"]_vars

====
